---- MODULE Spec2Model ----
(***************************************************************************)
(* A model of the SkyDNS request handler (server.go): ServeDNS routes a    *)
(* query either to the authoritative resolver (AddressRecords, SRVRecords, *)
(* SOA, the deferred DNSSEC step and write) or to ServeDNSForward, which   *)
(* retries an exchange over the configured nameservers.                    *)
(*                                                                         *)
(* Domain names, store paths and store keys are sequences of one-character *)
(* strings, so that ToLower, HasSuffix, SplitDomainName and Join work on   *)
(* characters as the Go code does.                                         *)
(***************************************************************************)
EXTENDS Integers, Sequences, FiniteSets, TLC

VARIABLES s, req, pc, m, records, r, j, rnd, try, nsid,
          written, exchanges, storeCalls,
          qpath, other, waiter, runners, starts, stops

vars == <<s, req, pc, m, records, r, j, rnd, try, nsid,
          written, exchanges, storeCalls,
          qpath, other, waiter, runners, starts, stops>>

----------------------------------------------------------------------------
(* Bounds of the model *)

\* request IDs range over 0..MaxId
MaxId == 3
\* the nameserver pool holds 0..MaxNs servers
MaxNs == 2
\* values returned by dns.Id() range over 0..MaxRand
MaxRand == 3
\* the cluster list holds 0..MaxMembers members
MaxMembers == 2

\* names given to questionToPath alone hold 1..MaxNameLen characters
MaxNameLen == 6

\* Start is called at most MaxCalls times on one server
MaxCalls == 7

(* Program constants *)
DefaultTtl == 3600
DefaultMinTtl == 60

----------------------------------------------------------------------------
(* strings *)

LowerChar(c) ==
    CASE c = "A" -> "a"
      [] c = "K" -> "k"
      [] c = "M" -> "m"
      [] c = "S" -> "s"
      [] c = "X" -> "x"
      [] c = "Y" -> "y"
      [] OTHER -> c

ToLower(str) == [i \in 1..Len(str) |-> LowerChar(str[i])]

HasSuffix(str, suffix) ==
    /\ Len(str) >= Len(suffix)
    /\ SubSeq(str, Len(str) - Len(suffix) + 1, Len(str)) = suffix

Fqdn(str) == IF HasSuffix(str, <<".">>) THEN str ELSE str \o <<".">>

RECURSIVE SplitLabels(_, _, _)
SplitLabels(str, i, cur) ==
    IF i > Len(str)
    THEN IF cur = <<>> THEN <<>> ELSE <<cur>>
    ELSE IF str[i] = "."
         THEN <<cur>> \o SplitLabels(str, i + 1, <<>>)
         ELSE SplitLabels(str, i + 1, Append(cur, str[i]))

\* dns.SplitDomainName: the labels of a name, nil for the root
SplitDomainName(str) ==
    IF str = <<".">> \/ str = <<>> THEN <<>> ELSE SplitLabels(str, 1, <<>>)

RECURSIVE Join(_, _)
Join(l, sep) ==
    IF Len(l) = 0 THEN <<>>
    ELSE IF Len(l) = 1 THEN l[1]
    ELSE l[1] \o sep \o Join(Tail(l), sep)

\* ReverseLabels with a fault: the labels keep their order
KeepLabels(l) == l

\* the in-place reversal loop of questionToPath
ReverseLabels(l) == [i \in 1..Len(l) |-> l[Len(l) + 1 - i]]

questionToPath(str) == Join(ReverseLabels(SplitDomainName(str)), <<"/">>)

----------------------------------------------------------------------------
(* messages and resource records *)

\* a net.IP: its byte length, whether it is an IPv4 address, and the literal
NilIP == [len |-> 0, v4 |-> FALSE, val |-> "nil"]

V4Literals == {"10.0.0.1", "10.0.0.2", "10.0.0.3"}
V6Literals == {"2001:db8::1", "2001:db8::2", "2001:db8::3"}

\* net.ParseIP: a 16-byte address, or nil for a string that is no IP literal
ParseIP(str) ==
    IF str \in V4Literals THEN [len |-> 16, v4 |-> TRUE, val |-> str]
    ELSE IF str \in V6Literals THEN [len |-> 16, v4 |-> FALSE, val |-> str]
    ELSE NilIP

\* net.IP.To4: the 4-byte form of an IPv4 address, nil otherwise
To4(ip) ==
    IF ip.len # 0 /\ ip.v4 THEN [len |-> 4, v4 |-> TRUE, val |-> ip.val] ELSE NilIP

\* net.IP.To16: the 16-byte form of any address (an IPv4 one is v4-mapped)
To16(ip) ==
    IF ip.len = 0 THEN NilIP ELSE [len |-> 16, v4 |-> ip.v4, val |-> ip.val]

\* uint32(x): the store's TTLs are non-negative and the model's integers lie
\* below 2^31, a range on which the conversion keeps the value
Uint32(x) == x

RR(name, rrtype, ttl, data) ==
    [Name |-> name, Rrtype |-> rrtype, Ttl |-> ttl, Data |-> data, Minttl |-> 0]

\* server.SOA; the time-derived serial is left out
SOA ==
    [Name |-> s.domain, Rrtype |-> "SOA", Ttl |-> s.Ttl,
     Data |-> [len |-> 0, v4 |-> FALSE, val |-> "soa"], Minttl |-> s.MinTtl]

\* the zone's DNSKEY record, s.PubKey
PubKeyRR ==
    [Name |-> s.domain, Rrtype |-> "DNSKEY", Ttl |-> s.Ttl,
     Data |-> [len |-> 0, v4 |-> FALSE, val |-> "key"], Minttl |-> 0]

NoMsg ==
    [Id |-> 0 - 1, Rcode |-> "none", Authoritative |-> FALSE,
     RecursionAvailable |-> FALSE, Answer |-> <<>>, Ns |-> <<>>, Extra |-> <<>>]

\* dns.Msg.SetReply on a fresh message
SetReply(q) ==
    [Id |-> q.Id, Rcode |-> "NOERROR", Authoritative |-> FALSE,
     RecursionAvailable |-> FALSE, Answer |-> <<>>, Ns |-> <<>>, Extra |-> <<>>]

SetRcode(msg, rcode) == [msg EXCEPT !.Rcode = rcode]

----------------------------------------------------------------------------
(* inputs: names, questions, store nodes, cluster members, upstream replies *)

Lsky == <<"s", "k", "y">>
LSky == <<"S", "k", "y">>
Lx == <<"x">>
LX == <<"X">>
Lxsky == <<"x", "s", "k", "y">>
Lmaster == <<"m", "a", "s", "t", "e", "r">>

FromLabels(ls) == Join(ls, <<".">>) \o <<".">>

\* the domain argument given to NewServer
DomainArg == LSky

Names ==
    { FromLabels(ls) : ls \in { <<Lsky>>, <<LSky>>, <<Lx, Lsky>>, <<LX, LSky>>,
                                <<Lmaster, Lsky>>, <<Lxsky>>, <<Lx>>, <<Lsky, Lx>> } }

Qtypes == {"A", "AAAA", "SRV", "ANY", "SOA", "DNSKEY", "TXT"}

\* the request's EDNS0 state: no OPT record, an OPT record without the DO
\* bit, an OPT record with the DO bit
Edns0s == {"none", "opt", "do"}

Ids == 0..MaxId
RandIds == 0..MaxRand

Requests == [Id : Ids, Name : Names, Qtype : Qtypes, Edns0 : Edns0s]

Pools == { [i \in 1..n |-> i] : n \in 0..MaxNs }

\* etcd nodes
Leaf(key, value, ttl) ==
    [Dir |-> FALSE, Key |-> key, Value |-> value, TTL |-> ttl, Nodes |-> <<>>]
DirNode(key, nodes) ==
    [Dir |-> TRUE, Key |-> key, Value |-> "", TTL |-> 0, Nodes |-> nodes]
NoNode == [Dir |-> FALSE, Key |-> <<>>, Value |-> "", TTL |-> 0, Nodes |-> <<>>]

Sub(key, seg) == key \o <<"/">> \o seg
SegA == <<"A">>
SegAAAA == <<"A", "A", "A", "A">>
SegX == <<"x">>
Seg1 == <<"1">>
Seg2 == <<"2">>
Seg3 == <<"3">>

\* the node trees a recursive Get of key k may return
SampleNodes(k) ==
    { Leaf(k, "10.0.0.1", 30), DirNode(k, <<>>) }
    \cup { DirNode(k, <<Leaf(Sub(k, SegA), v, 30)>>) :
             v \in {"10.0.0.1", "2001:db8::1", "bogus"} }
    \cup { DirNode(k, <<Leaf(Sub(k, SegAAAA), v, 40)>>) :
             v \in {"10.0.0.1", "2001:db8::1", "bogus"} }
    \cup { DirNode(k, <<Leaf(Sub(k, SegA), "10.0.0.1", 30),
                        Leaf(Sub(k, SegAAAA), "2001:db8::1", 40)>>),
           DirNode(k, <<Leaf(Sub(k, SegA), "bogus", 30),
                        DirNode(Sub(k, Seg1),
                                <<Leaf(Sub(Sub(k, Seg1), SegA), "10.0.0.2", 50)>>)>>),
           DirNode(k, <<Leaf(Sub(k, SegAAAA), "bogus", 40),
                        DirNode(Sub(k, Seg1),
                                <<Leaf(Sub(Sub(k, Seg1), SegAAAA), "2001:db8::2", 50)>>)>>),
           DirNode(k, <<Leaf(Sub(k, SegA), "10.0.0.1", 30),
                        DirNode(Sub(k, Seg1),
                                <<Leaf(Sub(Sub(k, Seg1), SegA), "10.0.0.2", 50),
                                  Leaf(Sub(Sub(k, Seg1), SegX), "10.0.0.3", 60)>>),
                        DirNode(Sub(k, Seg2),
                                <<DirNode(Sub(Sub(k, Seg2), Seg3),
                                          <<Leaf(Sub(Sub(Sub(k, Seg2), Seg3), SegA),
                                                 "10.0.0.3", 70)>>)>>)>>),
           DirNode(k, <<DirNode(Sub(k, Seg1),
                                <<Leaf(Sub(Sub(k, Seg1), SegAAAA), "2001:db8::1", 40),
                                  Leaf(Sub(Sub(k, Seg1), SegA), "10.0.0.1", 30)>>),
                        DirNode(Sub(k, Seg2),
                                <<Leaf(Sub(Sub(k, Seg2), SegAAAA), "2001:db8::2", 50)>>),
                        Leaf(Sub(k, SegAAAA), "2001:db8::3", 60)>>) }

\* the results of client.Get(path, false, true): an error, or the node at path
\* the paths the requests' names map to
StorePaths == { questionToPath(ToLower(n)) : n \in Names }

\* for each path, the results client.Get may give: an error, or a node at it
GetTable ==
    [ p \in StorePaths |->
        { [err |-> TRUE, Node |-> NoNode] }
        \cup { [err |-> FALSE, Node |-> n] : n \in SampleNodes(<<"/">> \o p) } ]

GetResults(path) == GetTable[path]

\* a cluster member URL: whether url.Parse fails on it, whether
\* net.SplitHostPort fails on its host part, and the host
Members ==
    { [urlErr |-> FALSE, hostPortErr |-> FALSE, host |-> "10.0.0.1"],
      [urlErr |-> FALSE, hostPortErr |-> FALSE, host |-> "2001:db8::1"],
      [urlErr |-> FALSE, hostPortErr |-> FALSE, host |-> "localhost"],
      [urlErr |-> TRUE, hostPortErr |-> FALSE, host |-> ""],
      [urlErr |-> FALSE, hostPortErr |-> TRUE, host |-> ""] }

RECURSIVE SeqsUpTo(_, _)
SeqsUpTo(S, n) ==
    IF n = 0 THEN { <<>> }
    ELSE SeqsUpTo(S, n - 1)
         \cup { Append(q, x) : q \in { p \in SeqsUpTo(S, n - 1) : Len(p) = n - 1 }, x \in S }

\* the results of client.GetCluster()
ClusterLists == SeqsUpTo(Members, MaxMembers)

\* the responses an upstream nameserver may give to a request
UpstreamReplies(q) ==
    { [SetReply(q) EXCEPT !.RecursionAvailable = TRUE,
                          !.Answer = <<RR(q.Name, q.Qtype, 300,
                                          [len |-> 4, v4 |-> TRUE, val |-> "192.0.2.1"])>>],
      [SetReply(q) EXCEPT !.RecursionAvailable = TRUE, !.Rcode = "NXDOMAIN"],
      [SetReply(q) EXCEPT !.RecursionAvailable = TRUE, !.Rcode = "SERVFAIL"] }

----------------------------------------------------------------------------
(* the server and the state after construction *)

NewServer(domain, nameservers) ==
    [domain |-> Fqdn(ToLower(domain)), nameservers |-> nameservers,
     Ttl |-> DefaultTtl, MinTtl |-> DefaultMinTtl,
     PubKey |-> FALSE, RoundRobin |-> FALSE]

\* no second handler is in flight
NoHandler ==
    [pc |-> "none", req |-> [Id |-> 0, Name |-> <<>>, Qtype |-> "A", Edns0 |-> "none"],
     try |-> 0, nsid |-> 0, written |-> <<>>]

\* One request has arrived at a server built by NewServer whose key material
\* and round-robin flag were set by the start-up code.
Init ==
    /\ \E pool \in Pools, key \in BOOLEAN, rr \in BOOLEAN :
          s = [NewServer(DomainArg, pool) EXCEPT !.PubKey = key, !.RoundRobin = rr]
    /\ req \in Requests
    /\ pc = "ServeDNS"
    /\ m = NoMsg
    /\ records = <<>>
    /\ r = NoNode
    /\ j = 0
    /\ rnd = 0
    /\ try = 0
    /\ nsid = 0
    /\ written = <<>>
    /\ exchanges = <<>>
    /\ storeCalls = <<>>
    /\ qpath = <<>>
    /\ other = NoHandler
    /\ waiter = 0
    /\ runners = 0
    /\ starts = 0
    /\ stops = 0

----------------------------------------------------------------------------
(* ServeDNSForward *)

\* NoServersReply with a fault: the recursion-available flag is left unset
NoServersReplyPlain(q) == SetRcode(SetReply(q), "SERVFAIL")

\* the reply written when no nameserver is configured
NoServersReply(q) ==
    [SetRcode(SetReply(q), "SERVFAIL") EXCEPT !.Authoritative = FALSE,
                                           !.RecursionAvailable = TRUE]

\* the reply written when the retries are used up
ExhaustedReply(q) == SetRcode(SetReply(q), "SERVFAIL")

\* StartIndex with a fault: the first server is always tried first
StartIndexZero(id, n) == 0

\* "nsid := int(req.Id) % len(s.nameservers)"
StartIndex(id, n) == id % n

\* "nsid = (nsid + 1) % len(s.nameservers)"
NextIndex(i, n) == (i + 1) % n

\* "if try < len(s.nameservers)"
MayRetry(t, n) == t < n

\* entry of ServeDNSForward, up to the first exchange
ServeDNSForward ==
    /\ pc = "ServeDNSForward"
    /\ IF Len(s.nameservers) = 0
       THEN /\ written' = Append(written, NoServersReply(req))
            /\ pc' = "done"
            /\ UNCHANGED <<nsid, try>>
       ELSE /\ nsid' = StartIndex(req.Id, Len(s.nameservers))
            /\ try' = 0
            /\ pc' = "Redo"
            /\ UNCHANGED written
    /\ UNCHANGED <<s, req, m, records, r, j, rnd, exchanges, storeCalls>>
    /\ UNCHANGED <<qpath, other, waiter, runners, starts, stops>>

\* ForwardSuccess with a fault: the reply is written and the retry goes on
ForwardSuccessRetries(reply) ==
    /\ written' = Append(written, reply)
    /\ pc' = "Redo"
    /\ UNCHANGED <<try, nsid>>

\* what ServeDNSForward does with a successful exchange
ForwardSuccess(reply) ==
    /\ written' = Append(written, reply)
    /\ pc' = "done"
    /\ UNCHANGED <<try, nsid>>

\* c.Exchange returns a response: it is written back
ExchangeOk ==
    /\ pc = "Redo"
    /\ \E reply \in UpstreamReplies(req) :
          /\ exchanges' = Append(exchanges,
                [ns |-> s.nameservers[nsid + 1], err |-> FALSE, r |-> reply])
          /\ ForwardSuccess(reply)
    /\ UNCHANGED <<s, req, m, records, r, j, rnd, storeCalls>>
    /\ UNCHANGED <<qpath, other, waiter, runners, starts, stops>>

\* c.Exchange returns an error: try the next nameserver or give up
ExchangeErr ==
    /\ pc = "Redo"
    /\ exchanges' = Append(exchanges,
          [ns |-> s.nameservers[nsid + 1], err |-> TRUE, r |-> NoMsg])
    /\ IF MayRetry(try, Len(s.nameservers))
       THEN /\ try' = try + 1
            /\ nsid' = NextIndex(nsid, Len(s.nameservers))
            /\ pc' = "Redo"
            /\ UNCHANGED written
       ELSE /\ written' = Append(written, ExhaustedReply(req))
            /\ pc' = "done"
            /\ UNCHANGED <<try, nsid>>
    /\ UNCHANGED <<s, req, m, records, r, j, rnd, storeCalls>>
    /\ UNCHANGED <<qpath, other, waiter, runners, starts, stops>>

----------------------------------------------------------------------------
(* AddressRecords *)

ARecord(name, ttl, value) == RR(name, "A", ttl, To4(ParseIP(value)))
AAAARecord(name, ttl, value) == RR(name, "AAAA", ttl, To16(ParseIP(value)))

\* MemberRecord with a fault: a member without an address is passed over
MemberRecordSkips(ip, q) ==
    IF To4(ip) # NilIP /\ q.Qtype = "A"
    THEN [panic |-> FALSE, rrs |-> <<RR(q.Name, "A", s.Ttl, To4(ip))>>]
    ELSE IF To16(ip) # NilIP
    THEN [panic |-> FALSE, rrs |-> <<RR(q.Name, "AAAA", s.Ttl, To16(ip))>>]
    ELSE [panic |-> FALSE, rrs |-> <<>>]

\* the switch on one cluster member's address: the record it adds, or a panic
MemberRecord(ip, q) ==
    IF To4(ip) # NilIP /\ q.Qtype = "A"
    THEN [panic |-> FALSE, rrs |-> <<RR(q.Name, "A", s.Ttl, To4(ip))>>]
    ELSE IF To16(ip) # NilIP
    THEN [panic |-> FALSE, rrs |-> <<RR(q.Name, "AAAA", s.Ttl, To16(ip))>>]
    ELSE [panic |-> TRUE, rrs |-> <<>>]

\* the loop over the cluster members: the records, or a panic
RECURSIVE ClusterRecords(_, _)
ClusterRecords(members, q) ==
    IF members = <<>> THEN [panic |-> FALSE, rrs |-> <<>>]
    ELSE LET mem == Head(members)
             one == IF mem.urlErr \/ mem.hostPortErr
                    THEN [panic |-> FALSE, rrs |-> <<>>]
                    ELSE MemberRecord(ParseIP(mem.host), q)
             rest == ClusterRecords(Tail(members), q)
         IN IF one.panic THEN [panic |-> TRUE, rrs |-> <<>>]
            ELSE IF rest.panic THEN [panic |-> TRUE, rrs |-> <<>>]
            ELSE [panic |-> FALSE, rrs |-> one.rrs \o rest.rrs]

\* the records of one leaf node for a query of type t with owner name q
NodeRecords(n, q, t) ==
    (IF HasSuffix(n.Key, <<"/">> \o SegA) /\ t = "A"
     THEN <<ARecord(q, Uint32(n.TTL), n.Value)>> ELSE <<>>)
    \o
    (IF HasSuffix(n.Key, <<"/">> \o SegAAAA) /\ t = "AAAA"
     THEN <<AAAARecord(q, Uint32(n.TTL), n.Value)>> ELSE <<>>)

\* loopAddressNodes with a fault: directories are skipped, not walked
RECURSIVE loopAddressNodesFlat(_, _, _)
loopAddressNodesFlat(nodes, q, t) ==
    IF nodes = <<>> THEN <<>>
    ELSE LET n == Head(nodes)
         IN (IF n.Dir THEN <<>> ELSE NodeRecords(n, q, t))
            \o loopAddressNodesFlat(Tail(nodes), q, t)

RECURSIVE loopAddressNodes(_, _, _)
loopAddressNodes(nodes, q, t) ==
    IF nodes = <<>> THEN <<>>
    ELSE LET n == Head(nodes)
         IN (IF n.Dir THEN loopAddressNodes(n.Nodes, q, t) ELSE NodeRecords(n, q, t))
            \o loopAddressNodes(Tail(nodes), q, t)

\* the records AddressRecords builds from a fetched node, before round-robin
StoreRecords(node, q) ==
    IF ~node.Dir THEN NodeRecords(node, q.Name, q.Qtype)
    ELSE loopAddressNodes(node.Nodes, q.Name, q.Qtype)

\* "records[a], records[b] = records[b], records[a]" (positions from 0)
Swap(rs, a, b) == [rs EXCEPT ![a + 1] = rs[b + 1], ![b + 1] = rs[a + 1]]

\* SwapTwo with a fault: the two records are swapped on an odd value
SwapTwoOdd(rs, id) == IF id % 2 = 1 THEN Swap(rs, 0, 1) ELSE rs

\* "if dns.Id()%2 == 0" on the value id that dns.Id() returned
SwapTwo(rs, id) == IF id % 2 = 0 THEN Swap(rs, 0, 1) ELSE rs

\* LoopBound with a fault: the "+1" is missing
LoopBoundNoMin(l, id) == l * (id % 4)

\* the bound of the shuffle loop for the value id that dns.Id() returned
LoopBound(l, id) == l * ((id % 4) + 1)

\* one iteration of the shuffle loop for the values idq, idp of dns.Id()
SwapStep(rs, idq, idp) ==
    LET l == Len(rs)
        q == idq % l
        p0 == idp % l
        p == IF q = p0 THEN (p0 + 1) % l ELSE p0
    IN Swap(rs, q, p)

\* NameError with a fault: the authority section is left empty
NameErrorNoSOA(msg) == SetRcode(msg, "NXDOMAIN")

\* the error return of AddressRecords in ServeDNS: NXDOMAIN with the SOA
NameError(msg) == [SetRcode(msg, "NXDOMAIN") EXCEPT !.Ns = <<SOA>>]

\* whether AddressRecords answers the name from the cluster list
IsClusterName(name) == name = ToLower(Lmaster) \o <<".">> \o s.domain \/ name = s.domain

\* AddressRecords returns recs to ServeDNS, which appends them to the answer
ReturnRecords(recs) ==
    /\ records' = recs
    /\ m' = [m EXCEPT !.Answer = @ \o recs]
    /\ pc' = "SRVRecords"

\* AddressRecords for the zone apex or master.<zone>: one record per member
AddressRecordsCluster ==
    /\ pc = "AddressRecords"
    /\ IsClusterName(ToLower(req.Name))
    /\ \E members \in ClusterLists :
          /\ storeCalls' = Append(storeCalls,
                [op |-> "GetCluster", path |-> <<>>, err |-> FALSE,
                 members |-> members])
          /\ LET res == ClusterRecords(members, req)
             IN IF res.panic
                THEN pc' = "panic" /\ UNCHANGED <<m, records>>
                ELSE ReturnRecords(res.rrs)
    /\ UNCHANGED <<s, req, r, j, rnd, try, nsid, written, exchanges>>
    /\ UNCHANGED <<qpath, other, waiter, runners, starts, stops>>

\* AddressRecords for any other name: fetch the path, build the records and,
\* with round-robin, reorder a set of two or enter the shuffle loop
AddressRecordsStore ==
    /\ pc = "AddressRecords"
    /\ ~IsClusterName(ToLower(req.Name))
    /\ LET path == questionToPath(ToLower(req.Name))
       IN \E res \in GetResults(path) :
             /\ storeCalls' = Append(storeCalls,
                   [op |-> "Get", path |-> path, err |-> res.err])
             /\ IF res.err
                THEN /\ m' = NameError(m)
                     /\ pc' = "deferred"
                     /\ UNCHANGED <<records, r, j, rnd>>
                ELSE LET recs == StoreRecords(res.Node, req)
                         l == Len(recs)
                     IN /\ r' = res.Node
                        /\ IF ~s.RoundRobin \/ l = 1
                           THEN ReturnRecords(recs) /\ UNCHANGED <<j, rnd>>
                           ELSE IF l = 2
                           THEN \E id \in RandIds :
                                   /\ rnd' = id
                                   /\ ReturnRecords(SwapTwo(recs, id))
                                   /\ UNCHANGED j
                           ELSE /\ records' = recs
                                /\ j' = 0
                                /\ pc' = "shuffle"
                                /\ UNCHANGED <<m, rnd>>
    /\ UNCHANGED <<s, req, try, nsid, written, exchanges>>
    /\ UNCHANGED <<qpath, other, waiter, runners, starts, stops>>

\* one iteration of the default case's loop: the bound and the two positions
\* each come from their own call of dns.Id()
ShuffleSwap ==
    /\ pc = "shuffle"
    /\ \E idb \in RandIds, idq \in RandIds, idp \in RandIds :
          /\ j < LoopBound(Len(records), idb)
          /\ records' = SwapStep(records, idq, idp)
          /\ j' = j + 1
    /\ UNCHANGED <<s, req, pc, m, r, rnd, try, nsid, written, exchanges, storeCalls>>
    /\ UNCHANGED <<qpath, other, waiter, runners, starts, stops>>

\* the loop test fails: AddressRecords returns the shuffled records
ShuffleReturn ==
    /\ pc = "shuffle"
    /\ \E idb \in RandIds :
          /\ ~(j < LoopBound(Len(records), idb))
          /\ ReturnRecords(records)
    /\ UNCHANGED <<s, req, r, j, rnd, try, nsid, written, exchanges, storeCalls>>
    /\ UNCHANGED <<qpath, other, waiter, runners, starts, stops>>

----------------------------------------------------------------------------
(* ServeDNS *)

\* "if !strings.HasSuffix(name, s.domain)" decides the forwarding
InZone(name) == HasSuffix(name, s.domain)

\* Intercept with a fault: the DNSKEY case does not test for key material
InterceptAnyKey(name, qtype) ==
    IF name = s.domain /\ qtype = "DNSKEY" THEN "DNSKEY"
    ELSE IF name = s.domain /\ qtype = "SOA" THEN "SOA"
    ELSE "none"

\* the switch on the query type for the zone apex: which answer is given
\* before any resolution, if any
Intercept(name, qtype) ==
    IF name = s.domain /\ qtype = "DNSKEY" /\ s.PubKey THEN "DNSKEY"
    ELSE IF name = s.domain /\ qtype = "SOA" THEN "SOA"
    ELSE "none"

\* the reply ServeDNS starts from
NewReply(q) ==
    [SetReply(q) EXCEPT !.Authoritative = TRUE, !.RecursionAvailable = TRUE]

\* ServeDNS up to its first call into the forwarder or the resolver
ServeDNS ==
    /\ pc = "ServeDNS"
    /\ LET name == ToLower(req.Name)
           what == Intercept(name, req.Qtype)
       IN IF ~InZone(name)
          THEN pc' = "ServeDNSForward" /\ UNCHANGED m
          ELSE IF what = "DNSKEY"
          THEN /\ m' = [NewReply(req) EXCEPT !.Answer = Append(@, PubKeyRR)]
               /\ pc' = "deferred"
          ELSE IF what = "SOA"
          THEN /\ m' = [NewReply(req) EXCEPT !.Answer = <<SOA>>]
               /\ pc' = "deferred"
          ELSE /\ m' = NewReply(req)
               /\ pc' = IF req.Qtype \in {"A", "AAAA"} THEN "AddressRecords"
                        ELSE "SRVRecords"
    /\ UNCHANGED <<s, req, records, r, j, rnd, try, nsid, written, exchanges, storeCalls>>
    /\ UNCHANGED <<qpath, other, waiter, runners, starts, stops>>

\* SRVRecords with a fault: a failed fetch gives NXDOMAIN even when the
\* answer section already holds address records
SRVRecordsAlwaysNameError ==
    /\ pc = "SRVRecords"
    /\ LET path == questionToPath(ToLower(req.Name))
       IN \E res \in GetResults(path) :
             /\ storeCalls' = Append(storeCalls,
                   [op |-> "Get", path |-> path, err |-> res.err])
             /\ IF res.err
                THEN m' = NameError(m)
                ELSE m' = IF Len(m.Answer) = 0 THEN [m EXCEPT !.Ns = <<SOA>>] ELSE m
    /\ pc' = "deferred"
    /\ UNCHANGED <<s, req, records, r, j, rnd, try, nsid, written, exchanges>>
    /\ UNCHANGED <<qpath, other, waiter, runners, starts, stops>>

\* the rest of ServeDNS from the call of SRVRecords, which fetches the path
\* and returns no records and the fetch's error
SRVRecords ==
    /\ pc = "SRVRecords"
    /\ LET path == questionToPath(ToLower(req.Name))
       IN \E res \in GetResults(path) :
             /\ storeCalls' = Append(storeCalls,
                   [op |-> "Get", path |-> path, err |-> res.err])
             /\ IF res.err /\ Len(m.Answer) = 0
                THEN m' = NameError(m)
                ELSE LET m1 == IF req.Qtype \in {"ANY", "SRV"}
                               THEN [m EXCEPT !.Answer = @ \o <<>>, !.Extra = @ \o <<>>]
                               ELSE m
                     IN m' = IF Len(m1.Answer) = 0 THEN [m1 EXCEPT !.Ns = <<SOA>>]
                             ELSE m1
    /\ pc' = "deferred"
    /\ UNCHANGED <<s, req, records, r, j, rnd, try, nsid, written, exchanges>>
    /\ UNCHANGED <<qpath, other, waiter, runners, starts, stops>>

NSECRR == RR(s.domain, "NSEC", s.MinTtl, [len |-> 0, v4 |-> FALSE, val |-> "nsec"])
RRSIGRR == RR(s.domain, "RRSIG", s.Ttl, [len |-> 0, v4 |-> FALSE, val |-> "sig"])

\* s.nsec: adds the NSEC records to the authority section
nsec(msg) == [msg EXCEPT !.Ns = Append(@, NSECRR)]

\* s.sign: adds a signature to each section that holds records
sign(msg) ==
    [msg EXCEPT !.Answer = IF @ = <<>> THEN @ ELSE Append(@, RRSIGRR),
                !.Ns = IF @ = <<>> THEN @ ELSE Append(@, RRSIGRR)]

\* NeedsDNSSEC with a fault: the request's DO bit is not looked at
NeedsDNSSECAnyRequest(q) == s.PubKey

\* "if s.PubKey != nil { if opt := req.IsEdns0(); opt != nil && opt.Do()"
NeedsDNSSEC(q) == s.PubKey /\ q.Edns0 = "do"

\* Deferred with a fault: the write waits until no other handler is inside
\* a forwarding exchange, as it would under a lock held across the exchange
DeferredUnderLock ==
    /\ pc \in {"deferred", "panic"}
    /\ other.pc # "Redo"
    /\ LET out == IF NeedsDNSSEC(req) THEN sign(nsec(m)) ELSE m
       IN /\ m' = out
          /\ written' = Append(written, out)
    /\ pc' = IF pc = "panic" THEN "crashed" ELSE "done"
    /\ UNCHANGED <<s, req, records, r, j, rnd, try, nsid, exchanges, storeCalls>>
    /\ UNCHANGED <<qpath, other, waiter, runners, starts, stops>>

\* the deferred function of ServeDNS: sign if asked to, then write; it also
\* runs when AddressRecords panics, after which the panic goes on
Deferred ==
    /\ pc \in {"deferred", "panic"}
    /\ LET out == IF NeedsDNSSEC(req) THEN sign(nsec(m)) ELSE m
       IN /\ m' = out
          /\ written' = Append(written, out)
    /\ pc' = IF pc = "panic" THEN "crashed" ELSE "done"
    /\ UNCHANGED <<s, req, records, r, j, rnd, try, nsid, exchanges, storeCalls>>
    /\ UNCHANGED <<qpath, other, waiter, runners, starts, stops>>

----------------------------------------------------------------------------

Next ==
    \/ ServeDNS
    \/ ServeDNSForward
    \/ ExchangeOk
    \/ ExchangeErr
    \/ AddressRecordsCluster
    \/ AddressRecordsStore
    \/ ShuffleSwap
    \/ ShuffleReturn
    \/ SRVRecords
    \/ Deferred

Spec == Init /\ [][Next]_vars

----------------------------------------------------------------------------
(* two requests in flight: each is served by a goroutine of its own *)

\* the requests of the handler that is watched
ConcRequests ==
    [Id : {0}, Name : {FromLabels(<<Lsky>>), FromLabels(<<Lx, Lsky>>), FromLabels(<<Lx>>)},
     Qtype : {"A", "SRV"}, Edns0 : {"do"}]

\* the request of the other handler
OtherRequest == [Id |-> 1, Name |-> FromLabels(<<Lx>>), Qtype |-> "A", Edns0 |-> "none"]

\* One request has arrived at ServeDNS while the handler of another request,
\* for a name outside the zone, is inside its first exchange with a nameserver.
InitConc ==
    /\ \E pool \in Pools \ {<<>>} :
          s = [NewServer(DomainArg, pool) EXCEPT !.PubKey = TRUE, !.RoundRobin = TRUE]
    /\ req \in ConcRequests
    /\ pc = "ServeDNS"
    /\ m = NoMsg
    /\ records = <<>>
    /\ r = NoNode
    /\ j = 0
    /\ rnd = 0
    /\ try = 0
    /\ nsid = 0
    /\ written = <<>>
    /\ exchanges = <<>>
    /\ storeCalls = <<>>
    /\ qpath = <<>>
    /\ other = [pc |-> "Redo", req |-> OtherRequest, try |-> 0,
                nsid |-> StartIndex(OtherRequest.Id, Len(s.nameservers)),
                written |-> <<>>]
    /\ waiter = 0
    /\ runners = 0
    /\ starts = 0
    /\ stops = 0

\* the other handler's exchange returns a response, which it writes back
OtherExchangeOk ==
    /\ other.pc = "Redo"
    /\ \E reply \in UpstreamReplies(other.req) :
          other' = [other EXCEPT !.written = Append(@, reply), !.pc = "done"]
    /\ UNCHANGED <<s, req, pc, m, records, r, j, rnd, try, nsid, written, exchanges,
                   storeCalls, qpath, waiter, runners, starts, stops>>

\* the other handler's exchange fails: the next server, or SERVFAIL
OtherExchangeErr ==
    /\ other.pc = "Redo"
    /\ IF MayRetry(other.try, Len(s.nameservers))
       THEN other' = [other EXCEPT !.try = @ + 1,
                                   !.nsid = NextIndex(@, Len(s.nameservers))]
       ELSE other' = [other EXCEPT !.written = Append(@, ExhaustedReply(other.req)),
                                   !.pc = "done"]
    /\ UNCHANGED <<s, req, pc, m, records, r, j, rnd, try, nsid, written, exchanges,
                   storeCalls, qpath, waiter, runners, starts, stops>>

NextConc ==
    \/ Next
    \/ OtherExchangeOk
    \/ OtherExchangeErr

\* The watched handler's goroutine is scheduled and what it waits for (the
\* store, its own exchange with its 5 s timeout) returns; nothing is assumed
\* of the other handler's exchange, which may never return.
SpecConc == InitConc /\ [][NextConc]_vars /\ WF_vars(Next)

----------------------------------------------------------------------------
(* Start, Stop and the signal-watching goroutine *)

\* A server built by NewServer: the wait group is at zero, no run goroutine.
InitLifecycle ==
    /\ s = NewServer(DomainArg, <<>>)
    /\ req \in [Id : {0}, Name : {FromLabels(<<Lsky>>)}, Qtype : {"A"}, Edns0 : {"none"}]
    /\ pc = "idle"
    /\ m = NoMsg
    /\ records = <<>>
    /\ r = NoNode
    /\ j = 0
    /\ rnd = 0
    /\ try = 0
    /\ nsid = 0
    /\ written = <<>>
    /\ exchanges = <<>>
    /\ storeCalls = <<>>
    /\ qpath = <<>>
    /\ other = NoHandler
    /\ waiter = 0
    /\ runners = 0
    /\ starts = 0
    /\ stops = 0

\* Start: "s.waiter.Add(1)", "go s.run()"
Start ==
    /\ waiter >= 0
    /\ starts < MaxCalls
    /\ waiter' = waiter + 1
    /\ runners' = runners + 1
    /\ starts' = starts + 1
    /\ UNCHANGED <<s, req, pc, m, records, r, j, rnd, try, nsid, written, exchanges,
                   storeCalls, qpath, other, stops>>

\* Stop, called by the owner of the server, once at most for each Start:
\* "s.waiter.Done()". A counter below zero makes Done panic, which ends the
\* process: nothing is enabled then.
Stop ==
    /\ waiter >= 0
    /\ stops < starts
    /\ waiter' = waiter - 1
    /\ stops' = stops + 1
    /\ UNCHANGED <<s, req, pc, m, records, r, j, rnd, try, nsid, written, exchanges,
                   storeCalls, qpath, other, runners, starts>>

\* one run goroutine receives the interrupt signal: "s.Stop()", "return"
run ==
    /\ waiter >= 0
    /\ runners > 0
    /\ waiter' = waiter - 1
    /\ runners' = runners - 1
    /\ UNCHANGED <<s, req, pc, m, records, r, j, rnd, try, nsid, written, exchanges,
                   storeCalls, qpath, other, starts, stops>>

NextLifecycle ==
    \/ Start
    \/ Stop
    \/ run

SpecLifecycle == InitLifecycle /\ [][NextLifecycle]_vars

----------------------------------------------------------------------------
(* questionToPath on its own *)

\* the characters of the names: two letters, the label separator and the
\* path separator
NameChars == {"a", "b", ".", "/"}

\* fully-qualified names as they come off the wire: the root, or non-empty
\* labels each closed by a dot
WireNames ==
    { n \in UNION { [1..k -> NameChars] : k \in 1..MaxNameLen } :
        /\ n[Len(n)] = "."
        /\ Len(n) > 1 => n[1] # "."
        /\ \A i \in 1..(Len(n) - 1) : ~(n[i] = "." /\ n[i + 1] = ".") }

\* a name is about to be handed to questionToPath
InitPath ==
    /\ req \in [Id : {0}, Name : WireNames, Qtype : {"A"}, Edns0 : {"none"}]
    /\ pc = "questionToPath"
    /\ s = NewServer(DomainArg, <<>>)
    /\ m = NoMsg
    /\ records = <<>>
    /\ r = NoNode
    /\ j = 0
    /\ rnd = 0
    /\ try = 0
    /\ nsid = 0
    /\ written = <<>>
    /\ exchanges = <<>>
    /\ storeCalls = <<>>
    /\ qpath = <<>>
    /\ other = NoHandler
    /\ waiter = 0
    /\ runners = 0
    /\ starts = 0
    /\ stops = 0

\* "path := questionToPath(name)"
PathStep ==
    /\ pc = "questionToPath"
    /\ qpath' = questionToPath(req.Name)
    /\ pc' = "return"
    /\ UNCHANGED <<s, req, m, records, r, j, rnd, try, nsid, written, exchanges,
                   storeCalls, other, waiter, runners, starts, stops>>

NextPath == PathStep

SpecPath == InitPath /\ [][NextPath]_vars

----------------------------------------------------------------------------
(* Properties *)

QName == ToLower(req.Name)
NumServers == Len(s.nameservers)

\* the name is the zone apex or a label-wise subdomain of it
LabelInZone == HasSuffix(SplitDomainName(QName), SplitDomainName(s.domain))

AllExchangesFailed == \A i \in 1..Len(exchanges) : exchanges[i].err

HasType(section, rrtype) == \E i \in 1..Len(section) : section[i].Rrtype = rrtype

\* every store fetch made so far returned not-found
AllGetsFailed ==
    \A i \in 1..Len(storeCalls) : storeCalls[i].op = "Get" => storeCalls[i].err

\* AddressRecords has returned records built from a fetched store node
StoreAnswered == r # NoNode /\ pc \in {"SRVRecords", "deferred", "done"}

\* C1: with N >= 1 nameservers whose exchanges all fail, exactly N exchange
\* attempts are made before the SERVFAIL response is written.
C1_ExactlyNAttempts ==
    (pc = "done" /\ NumServers >= 1 /\ exchanges # <<>> /\ AllExchangesFailed)
        => /\ Len(exchanges) = NumServers
           /\ written = <<ExhaustedReply(req)>>

\* C2: when the first successful exchange is attempt k <= N, the upstream's
\* response is written back unchanged, it is the only message written (no
\* SERVFAIL is synthesized) and no exchange is attempted after attempt k.
C2_FirstSuccessEnds ==
    \A k \in 1..Len(exchanges) :
        (~exchanges[k].err /\ k <= NumServers)
            => /\ k = Len(exchanges)
               /\ pc = "done"
               /\ written = <<exchanges[k].r>>

\* C2 witness: the first attempt failed, the second succeeded, k = 2 = N
C2_Witness ==
    /\ NumServers = 2
    /\ Len(exchanges) = 2
    /\ exchanges[1].err
    /\ ~exchanges[2].err
    /\ written = <<exchanges[2].r>>

\* C3: a query whose name is neither the zone apex nor a label-wise subdomain
\* of it goes to the forwarder and the store is never accessed.
C3_OutsideZoneForwarded ==
    (pc # "ServeDNS" /\ ~LabelInZone)
        => /\ storeCalls = <<>>
           /\ pc \in {"ServeDNSForward", "Redo", "done"}
           /\ m = NoMsg

\* the response is NXDOMAIN with an SOA record in the authority section
IsNXDomainWithSOA(msg) == msg.Rcode = "NXDOMAIN" /\ HasType(msg.Ns, "SOA")

\* C4 as stated: for a name inside the zone with no matching store entry,
\* whatever the query type, the response written is NXDOMAIN with an SOA
\* record in the authority section.
C4_AlwaysNXDomain ==
    (written # <<>> /\ LabelInZone /\ AllGetsFailed)
        => IsNXDomainWithSOA(written[1])

\* the queries answered without the store deciding: SOA at the apex, DNSKEY
\* at the apex with key material, and A/AAAA for the apex or master.<zone>
\* when the cluster list gave a record or made AddressRecords panic
C4_Exempt ==
    \/ QName = s.domain /\ req.Qtype = "SOA"
    \/ QName = s.domain /\ req.Qtype = "DNSKEY" /\ s.PubKey
    \/ /\ req.Qtype \in {"A", "AAAA"}
       /\ QName \in {s.domain, ToLower(Lmaster) \o <<".">> \o s.domain}
       /\ (written[1].Answer # <<>> \/ pc = "crashed")

\* C4 amended: for a name inside the zone with no matching store entry the
\* response written is NXDOMAIN with an SOA record in the authority section,
\* except for an apex SOA query, an apex DNSKEY query with key material, and
\* an A/AAAA query for the apex or master.<zone> whose cluster list yields a
\* record or a panic.
C4_NXDomainUnlessExempt ==
    (written # <<>> /\ LabelInZone /\ AllGetsFailed /\ ~C4_Exempt)
        => /\ IsNXDomainWithSOA(written[1])
           /\ Len(written) = 1

\* C4 witness: a TXT query for X.Sky. whose fetch found nothing was answered
C4_Witness ==
    /\ pc = "done"
    /\ req.Name = FromLabels(<<LX, LSky>>)
    /\ req.Qtype = "TXT"
    /\ Len(storeCalls) = 1
    /\ storeCalls[1].err
    /\ written # <<>>

\* C5: at the zone apex a DNSKEY query has the zone key in its answer
\* section iff key material is configured, and an SOA query is answered
\* NOERROR with the SOA in the answer section without any store access.
C5_ApexInterception ==
    (written # <<>> /\ QName = s.domain)
        => /\ req.Qtype = "DNSKEY"
                => (HasType(written[1].Answer, "DNSKEY") <=> s.PubKey)
           /\ req.Qtype = "SOA"
                => /\ written[1].Rcode = "NOERROR"
                   /\ written[1].Answer # <<>>
                   /\ written[1].Answer[1] = SOA
                   /\ storeCalls = <<>>

\* C5 witness: an apex DNSKEY query to a server with key material was answered
C5_Witness ==
    /\ pc = "done"
    /\ QName = s.domain
    /\ req.Qtype = "DNSKEY"
    /\ s.PubKey
    /\ HasType(written[1].Answer, "DNSKEY")

\* round-robin reordered the two records built from the fetched node
TwoRecords == StoreAnswered /\ s.RoundRobin /\ Len(records) = 2

Swapped == records = Swap(StoreRecords(r, req), 0, 1)

Shuffled == StoreAnswered /\ s.RoundRobin /\ Len(records) >= 3

C8_NoServers ==
    (NumServers = 0 /\ pc # "ServeDNS" /\ ~InZone(QName))
        => /\ exchanges = <<>>
           /\ pc \in {"ServeDNSForward", "done"}
           /\ pc = "done"
                => /\ Len(written) = 1
                   /\ written[1].Rcode = "SERVFAIL"
                   /\ ~written[1].Authoritative
                   /\ written[1].RecursionAvailable

\* C8 witness: a forwarded request was answered by a server without nameservers
C8_Witness ==
    /\ NumServers = 0
    /\ pc = "done"
    /\ ~InZone(QName)
    /\ Len(written) = 1

\* AddressRecords has returned records built from the cluster list
ClusterAnswered ==
    /\ req.Qtype \in {"A", "AAAA"}
    /\ QName \in {s.domain, ToLower(Lmaster) \o <<".">> \o s.domain}
    /\ pc \in {"SRVRecords", "deferred", "done"}

\* C9: for an A or AAAA query for the apex or master.<zone>, every record
\* built from a cluster member has the type of the member's address family
\* (A for IPv4, AAAA for IPv6) and the default TTL; an IPv4 member never
\* gives an AAAA record.
C9_TypeByFamily ==
    ClusterAnswered
        => \A i \in 1..Len(records) :
              /\ records[i].Ttl = s.Ttl
              /\ records[i].Rrtype = "A" <=> records[i].Data.v4
              /\ records[i].Rrtype = "AAAA" <=> ~records[i].Data.v4

\* C10: a leaf whose value does not parse as an address of the family its
\* key suffix requires contributes no record: every record of the answer
\* carries an address, IPv4 in an A record and IPv6 in an AAAA record.
C10_MalformedSkipped ==
    StoreAnswered
        => \A i \in 1..Len(records) :
              /\ records[i].Data # NilIP
              /\ records[i].Rrtype = "A" => records[i].Data.v4
              /\ records[i].Rrtype = "AAAA" => ~records[i].Data.v4

\* a response has been written by the authoritative path of ServeDNS
AuthWritten == written # <<>> /\ m # NoMsg

\* C11: every response written by the authoritative path with an empty
\* answer section carries an SOA record in its authority section.
C11_EmptyAnswerHasSOA ==
    (AuthWritten /\ written[1].Answer = <<>>) => HasType(written[1].Ns, "SOA")

\* the request asks for DNSSEC and the zone has key material
WantsDNSSEC == s.PubKey /\ req.Edns0 = "do"

\* C12: an authoritative response carries NSEC records and signatures iff key
\* material is present and the request has an OPT record with the DO bit;
\* the signature follows the NSEC records, both are in the message when it
\* is written and not before the deferred step, and a forwarded response
\* carries neither.
C12_SignedIffAsked ==
    /\ AuthWritten
         => /\ HasType(written[1].Ns, "NSEC") <=> WantsDNSSEC
            /\ HasType(written[1].Ns, "RRSIG") <=> WantsDNSSEC
            /\ WantsDNSSEC
                 => /\ written[1].Ns[Len(written[1].Ns)].Rrtype = "RRSIG"
                    /\ written[1].Answer # <<>>
                         => written[1].Answer[Len(written[1].Answer)].Rrtype = "RRSIG"
            /\ ~WantsDNSSEC => ~HasType(written[1].Answer, "RRSIG")
    /\ written = <<>>
         => ~HasType(m.Ns, "NSEC") /\ ~HasType(m.Ns, "RRSIG") /\ ~HasType(m.Answer, "RRSIG")
    /\ (written # <<>> /\ m = NoMsg)
         => /\ ~HasType(written[1].Ns, "NSEC")
            /\ ~HasType(written[1].Ns, "RRSIG")
            /\ ~HasType(written[1].Answer, "RRSIG")

\* C12 witness: a signed NXDOMAIN response was written
C12_Witness ==
    /\ pc = "done"
    /\ WantsDNSSEC
    /\ AuthWritten
    /\ written[1].Rcode = "NXDOMAIN"
    /\ HasType(written[1].Ns, "NSEC")

\* C14: the k-th exchange attempt goes to the nameserver at index
\* (ID + k - 1) mod N, and the index stays within 0..N-1.
C14_AttemptTargets ==
    /\ \A k \in 1..Len(exchanges) :
          exchanges[k].ns = s.nameservers[((req.Id + k - 1) % NumServers) + 1]
    /\ pc = "Redo" => (0 <= nsid /\ nsid < NumServers)

\* C14 witness: a third attempt was made on a pool of two by a query with ID 1
C14_Witness ==
    /\ NumServers = 2
    /\ req.Id = 1
    /\ Len(exchanges) = 3
    /\ exchanges[3].ns = s.nameservers[2]

\* the leaf nodes below a list of nodes, at any depth
RECURSIVE LeavesUnder(_)
LeavesUnder(nodes) ==
    IF nodes = <<>> THEN {}
    ELSE (IF Head(nodes).Dir THEN LeavesUnder(Head(nodes).Nodes) ELSE {Head(nodes)})
         \cup LeavesUnder(Tail(nodes))

\* the descendant leaves of the fetched directory whose key ends in the
\* suffix of the query's type
MatchingLeaves ==
    { n \in LeavesUnder(r.Nodes) :
        \/ req.Qtype = "A" /\ HasSuffix(n.Key, <<"/", "A">>)
        \/ req.Qtype = "AAAA" /\ HasSuffix(n.Key, <<"/", "A", "A", "A", "A">>) }

\* C15: when the fetched node is a directory, the answer set holds exactly
\* one record per descendant leaf, at any depth, whose key ends in the suffix
\* of the query's type, with the leaf's TTL and the queried name as owner.
C15_OneRecordPerLeaf ==
    (StoreAnswered /\ r.Dir)
        => /\ Len(records) = Cardinality(MatchingLeaves)
           /\ \A n \in MatchingLeaves :
                 \E i \in 1..Len(records) : records[i].Ttl = n.TTL
           /\ \A i \in 1..Len(records) :
                 /\ records[i].Name = req.Name
                 /\ records[i].Rrtype = req.Qtype
                 /\ \E n \in MatchingLeaves : records[i].Ttl = n.TTL

\* C15 witness: three A records came from leaves at depths 1, 2 and 3
C15_Witness ==
    /\ pc = "done"
    /\ r.Dir
    /\ req.Qtype = "A"
    /\ Len(records) = 3
    /\ \E n \in MatchingLeaves : n.TTL = 70

\* C18: a request gets exactly one response: never two, and one when the
\* handler has ended, on every path.
C18_ExactlyOneWrite ==
    /\ Len(written) <= 1
    /\ pc \in {"done", "crashed"} <=> Len(written) = 1

\* C18 witness: the forwarder gave up after failed exchanges and wrote once
C18_Witness ==
    /\ pc = "done"
    /\ exchanges # <<>>
    /\ AllExchangesFailed
    /\ Len(written) = 1
    /\ written[1].Rcode = "SERVFAIL"

\* C19: an authoritative NXDOMAIN response never has records in its answer
\* section: a failed service fetch after address records were found leaves
\* the rcode alone, and after a failed address fetch no second fetch is made.
C19_NXDomainHasNoAnswer ==
    /\ m.Rcode = "NXDOMAIN" => m.Answer = <<>>
    /\ AuthWritten /\ written[1].Rcode = "NXDOMAIN" => written[1].Answer = <<>>
    /\ (req.Qtype \in {"A", "AAAA"} /\ storeCalls # <<>>
          /\ storeCalls[1].op = "Get" /\ storeCalls[1].err)
         => Len(storeCalls) = 1

\* C19 witness: the address fetch found records, the service fetch found
\* nothing, and the response was written NOERROR with the records
C19_Witness ==
    /\ pc = "done"
    /\ Len(storeCalls) = 2
    /\ ~storeCalls[1].err
    /\ storeCalls[2].err
    /\ records # <<>>
    /\ written[1].Rcode = "NOERROR"
    /\ written[1].Answer # <<>>

\* the member list client.GetCluster() returned to this request, if any
ClusterCalled == storeCalls # <<>> /\ storeCalls[1].op = "GetCluster"

\* a member whose URL and host:port parse but whose host is no IP literal
BadHost(mem) == ~mem.urlErr /\ ~mem.hostPortErr /\ ParseIP(mem.host) = NilIP

\* the member list of this request holds such a member
HasBadHost ==
    /\ ClusterCalled
    /\ \E i \in 1..Len(storeCalls[1].members) : BadHost(storeCalls[1].members[i])

\* C16: a cluster member whose host is no parseable IP address makes the whole
\* AddressRecords call fail: no record built from an earlier member is
\* returned, and the handler goes on neither to service resolution nor to an
\* NXDOMAIN or NODATA response; nothing else aborts a request this way.
C16_BadMemberAborts ==
    /\ HasBadHost
         => /\ pc \in {"panic", "crashed"}
            /\ records = <<>>
            /\ m.Answer = <<>>
            /\ Len(storeCalls) = 1
            /\ m.Rcode = "NOERROR"
            /\ ~HasType(m.Ns, "SOA")
    /\ pc \in {"panic", "crashed"} => HasBadHost

\* C16 witness: an A query for the zone apex, a member list whose first member
\* has an IPv4 address and whose second has the host "localhost"; the handler
\* has ended in the panic
C16_Witness ==
    /\ pc = "crashed"
    /\ req.Qtype = "A"
    /\ ClusterCalled
    /\ Len(storeCalls[1].members) = 2
    /\ storeCalls[1].members[1].host = "10.0.0.1"
    /\ storeCalls[1].members[2].host = "localhost"

\* the pieces of a string between the occurrences of a separator character
RECURSIVE SplitOn(_, _, _, _)
SplitOn(str, sep, i, cur) ==
    IF i > Len(str) THEN <<cur>>
    ELSE IF str[i] = sep
         THEN <<cur>> \o SplitOn(str, sep, i + 1, <<>>)
         ELSE SplitOn(str, sep, i + 1, Append(cur, str[i]))

Reversed(l) == [i \in 1..Len(l) |-> l[Len(l) + 1 - i]]

\* the labels l1, ..., ln of the name l1.l2...ln.
LabelsOf(name) == SplitOn(SubSeq(name, 1, Len(name) - 1), ".", 1, <<>>)

\* a sequence of strings with a separator character between them
RECURSIVE Joined(_, _)
Joined(l, sep) ==
    IF l = <<>> THEN <<>>
    ELSE IF Len(l) = 1 THEN l[1]
    ELSE l[1] \o <<sep>> \o Joined(Tail(l), sep)

\* C13: questionToPath maps the name l1.l2...ln. to the path ln/.../l2/l1
\* ("b.a." to "a/b"); for a name whose labels hold no '/', splitting the path
\* on '/' and reversing the segments gives back the labels of the name. The
\* root name, which has no label, and no other name, maps to the empty path.
C13_PathRoundTrip ==
    pc = "return"
      => /\ req.Name = <<"b", ".", "a", ".">> => qpath = <<"a", "/", "b">>
         /\ req.Name # <<".">>
              => qpath = Joined(Reversed(LabelsOf(req.Name)), "/")
         /\ (req.Name # <<".">> /\ \A i \in 1..Len(req.Name) : req.Name[i] # "/")
              => Reversed(SplitOn(qpath, "/", 1, <<>>)) = LabelsOf(req.Name)
         /\ req.Name = <<".">> <=> qpath = <<>>

\* C13 witness: a name of three labels was mapped
C13_Witness ==
    /\ pc = "return"
    /\ req.Name = <<"a", ".", "a", ".", "b", ".">>
    /\ qpath = <<"b", "/", "a", "/", "a">>

\* C17: a request in flight reaches its response write whatever another
\* handler does, also when that handler stays inside a forwarding exchange
\* for ever.
C17_OtherNeverWaits == <>(Len(written) = 1)

\* C17 witness: the watched request was answered while the other handler had
\* not come back from its first exchange
C17_Witness ==
    /\ other.pc = "Redo"
    /\ other.try = 0
    /\ other.written = <<>>
    /\ pc = "done"
    /\ Len(written) = 1

\* C20: over any sequence of Start, Stop and interrupt signals the wait-group
\* counter never drops below zero.
C20_CounterNeverNegative == waiter >= 0

====
